---------------------------- MODULE Spec2Model ----------------------------
(***************************************************************************)
(* WitMotion WT901C-485 Modbus driver (Rust crate witmotion_modbus).       *)
(*                                                                         *)
(* The model covers the ModbusProtocol frame builder / byte-wise           *)
(* reassembler (modbus.rs), the WitSensor session built on it (sensor.rs:  *)
(* auto_scan, read_registers, write_register, process_incoming_data,       *)
(* read_sensor_data, extract_sensor_data) and the WitSerial transport      *)
(* (serial.rs) seen as an input queue of bytes whose calls may fail.       *)
(*                                                                         *)
(* Option<T> is a sequence of length 0 (None) or 1 (Some).                 *)
(***************************************************************************)
EXTENDS Integers, Sequences, FiniteSets, TLC

(***************************************************************************)
(* Bounds of the model (environment only, not program constants).          *)
(***************************************************************************)
\* auto_scan, read_sensor_data and process_incoming_data calls
MaxOps == 1
\* read_registers and write_register calls, made before the first of the
\* calls above
MaxSends == 2
\* disturbances of the transport: bursts of line noise it delivers and
\* calls (set speed, write, flush, read) that fail with an I/O error
MaxFaults == 1
\* bytes of history kept about what was fed to the reassembler
FedWindow == 300

(***************************************************************************)
(* Program constants.                                                      *)
(***************************************************************************)
\* lib.rs: SUPPORTED_BAUD_RATES
SUPPORTED_BAUD_RATES ==
    <<9600, 19200, 38400, 57600, 115200, 2400, 4800, 230400, 460800, 921600>>
DEFAULT_READ_COUNT == 12
\* sensor.rs, WitSensor::new: let default_baud = 9600
default_baud == 9600
\* registers.rs
SAVE == 0
RRATE == 3
MS == 51
AX == 52
AZ == 54
GX == 55
GZ == 57
HX == 58
HZ == 60
ROLL == 61
YAW == 63
TEMP == 64
FUNC_READ == 3
FUNC_WRITE == 6
\* modbus.rs, should_reset_buffer: data_buffer.len() > 256
RESET_THRESHOLD == 256
\* the slave address the session is created with (test-reader example 0x50)
slave_address == 80

(***************************************************************************)
(* Fixed-width integers.                                                   *)
(***************************************************************************)
U16 == 65536

\* u16::to_be_bytes
to_be_bytes(v) == <<(v \div 256) % 256, v % 256>>
\* u16::to_le_bytes
to_le_bytes(v) == <<v % 256, (v \div 256) % 256>>
\* u16::from_le_bytes([lo, hi])
u16_from_le_bytes(lo, hi) == hi * 256 + lo
\* u16::from_be_bytes([hi, lo])
u16_from_be_bytes(hi, lo) == hi * 256 + lo
\* i16::from_be_bytes([hi, lo]): two's complement
i16_from_be_bytes(hi, lo) ==
    LET u == hi * 256 + lo IN IF u >= 32768 THEN u - U16 ELSE u
\* `x as u16` of an i16
i16_as_u16(v) == IF v < 0 THEN v + U16 ELSE v
\* start_reg + i as u16 (wrapping, as in a release build)
reg_add(s, i) == (s + i) % U16

(***************************************************************************)
(* CRC-16/MODBUS as crc::Crc::<u16>::new(&CRC_16_MODBUS).checksum computes *)
(* it: init 0xFFFF, reflected polynomial 0xA001, no final xor, one table   *)
(* lookup per byte.                                                        *)
(***************************************************************************)
RECURSIVE XorBits(_, _)
XorBits(a, b) ==
    IF a = 0 THEN b
    ELSE IF b = 0 THEN a
    ELSE ((a + b) % 2) + 2 * XorBits(a \div 2, b \div 2)

XorByte == [a \in 0..255 |-> [b \in 0..255 |-> XorBits(a, b)]]

Xor16(a, b) ==
    XorByte[a \div 256][b \div 256] * 256 + XorByte[a % 256][b % 256]

RECURSIVE CrcShift(_, _)
CrcShift(c, k) ==
    IF k = 0 THEN c
    ELSE CrcShift(IF c % 2 = 1 THEN XorBits(c \div 2, 40961) ELSE c \div 2,
                  k - 1)

CrcTable == [i \in 0..255 |-> CrcShift(i, 8)]

CrcUpdate(c, b) == Xor16(c \div 256, CrcTable[XorByte[c % 256][b]])

\* bytes s[i..j] folded into the running value c, left to right
RECURSIVE CrcRange(_, _, _, _)
CrcRange(c, s, i, j) ==
    IF c < 0 \/ i > j THEN c
    ELSE IF i = j THEN CrcUpdate(c, s[i])
    ELSE LET m == (i + j) \div 2
         IN  CrcRange(CrcRange(c, s, i, m), s, m + 1, j)

checksum(s) == CrcRange(65535, s, 1, Len(s))

(***************************************************************************)
(* WitError and the results of the protocol functions.                     *)
(***************************************************************************)
NoErr == [tag |-> "", msg |-> ""]
InvalidParameter(m) == [tag |-> "InvalidParameter", msg |-> m]
CrcMismatch == [tag |-> "CrcMismatch", msg |-> ""]
SensorNotFound == [tag |-> "SensorNotFound", msg |-> ""]
Io == [tag |-> "Io", msg |-> ""]

\* WitResult<Option<(u16, Vec<i16>)>> of process_byte
PbNone == [kind |-> "None", err |-> NoErr, start |-> 0, values |-> <<>>]
PbSome(s, v) == [kind |-> "Some", err |-> NoErr, start |-> s, values |-> v]
PbErr(e) == [kind |-> "Err", err |-> e, start |-> 0, values |-> <<>>]

(***************************************************************************)
(* ModbusProtocol (modbus.rs).                                             *)
(***************************************************************************)
\* a faulty variant: the checksum is appended high byte first
read_request_frame_crc_be(address, start_register, num_registers) ==
    LET frame == <<address, 3>> \o to_be_bytes(start_register)
                     \o to_be_bytes(num_registers)
    IN  frame \o to_be_bytes(checksum(frame))

\* the frame generate_read_request builds in a handler created with
\* ModbusProtocol::new(address)
read_request_frame(address, start_register, num_registers) ==
    LET frame == <<address, 3>> \o to_be_bytes(start_register)
                     \o to_be_bytes(num_registers)
    IN  frame \o to_le_bytes(checksum(frame))

\* the frame generate_write_request builds in such a handler
write_request_frame(address, register, value) ==
    LET frame == <<address, 6>> \o to_be_bytes(register)
                     \o to_be_bytes(value)
    IN  frame \o to_le_bytes(checksum(frame))

\* a faulty variant: the count is recorded in place of the start register
generate_read_request_swapped(start_register, num_registers) ==
    [frame |-> read_request_frame(slave_address, start_register, num_registers),
     read_register_index |-> num_registers]

\* generate_read_request: the frame and the new read_register_index
generate_read_request(start_register, num_registers) ==
    [frame |-> read_request_frame(slave_address, start_register, num_registers),
     read_register_index |-> start_register]

\* generate_write_request (&self: no state change)
generate_write_request(register, value) ==
    write_request_frame(slave_address, register, value)

\* a faulty variant: the words are taken as unsigned
extract_registers_unsigned(buf) ==
    [i \in 1..(buf[3] \div 2) |-> u16_from_be_bytes(buf[2 + 2 * i], buf[3 + 2 * i])]

\* the register values of parse_response: data_length / 2 big-endian i16
extract_registers(buf) ==
    [i \in 1..(buf[3] \div 2) |-> i16_from_be_bytes(buf[2 + 2 * i], buf[3 + 2 * i])]

\* a faulty variant: a response from another slave is rejected
parse_response_checks_address(buf, index) ==
    IF Len(buf) < 5 THEN PbErr(InvalidParameter("Frame too short"))
    ELSE IF buf[1] # slave_address
    THEN PbErr(InvalidParameter("Invalid slave address"))
    ELSE IF buf[2] # 3 THEN PbErr(InvalidParameter("Invalid function code"))
    ELSE IF Len(buf) # buf[3] + 5
    THEN PbErr(InvalidParameter("Invalid frame length"))
    ELSE IF u16_from_le_bytes(buf[Len(buf) - 1], buf[Len(buf)])
               # CrcRange(65535, buf, 1, Len(buf) - 2)
    THEN PbErr(CrcMismatch)
    ELSE PbSome(index, extract_registers(buf))

\* a faulty variant: the checksum is compared before the function code
parse_response_crc_first(buf, index) ==
    IF Len(buf) < 5 THEN PbErr(InvalidParameter("Frame too short"))
    ELSE IF Len(buf) # buf[3] + 5
    THEN PbErr(InvalidParameter("Invalid frame length"))
    ELSE IF u16_from_le_bytes(buf[Len(buf) - 1], buf[Len(buf)])
               # CrcRange(65535, buf, 1, Len(buf) - 2)
    THEN PbErr(CrcMismatch)
    ELSE IF buf[2] # 3 THEN PbErr(InvalidParameter("Invalid function code"))
    ELSE PbSome(index, extract_registers(buf))

\* ModbusProtocol::parse_response on data_buffer = buf (buf[k+1] is byte k)
parse_response_buf(buf, index) ==
    IF Len(buf) < 5 THEN PbErr(InvalidParameter("Frame too short"))
    ELSE IF buf[2] # 3 THEN PbErr(InvalidParameter("Invalid function code"))
    ELSE LET expected_frame_length == buf[3] + 5 IN
         IF Len(buf) # expected_frame_length
         THEN PbErr(InvalidParameter("Invalid frame length"))
         ELSE LET received_crc ==
                      u16_from_le_bytes(buf[expected_frame_length - 1],
                                        buf[expected_frame_length])
                  calculated_crc ==
                      CrcRange(65535, buf, 1, expected_frame_length - 2)
              IN  IF received_crc # calculated_crc THEN PbErr(CrcMismatch)
                  ELSE PbSome(index, extract_registers(buf))

\* WitResult<Vec<u16>> of the free function parse_response
PrOk(v) == [kind |-> "Ok", err |-> NoErr, values |-> v]
PrErr(e) == [kind |-> "Err", err |-> e, values |-> <<>>]

\* a faulty variant: the words are taken low byte first
response_words_le(frame) ==
    [i \in 1..(frame[3] \div 2) |->
        u16_from_le_bytes(frame[2 + 2 * i], frame[3 + 2 * i])]

\* the register values of the free parse_response: data_length / 2
\* big-endian u16
response_words(frame) ==
    [i \in 1..(frame[3] \div 2) |->
        u16_from_be_bytes(frame[2 + 2 * i], frame[3 + 2 * i])]

\* a faulty variant: only the low byte of the checksum is compared
parse_response_low_crc(frame) ==
    IF Len(frame) < 5 THEN PrErr(InvalidParameter("Frame too short"))
    ELSE IF frame[2] # 3 THEN PrErr(InvalidParameter("Invalid function code"))
    ELSE LET expected_frame_length == frame[3] + 5 IN
         IF Len(frame) # expected_frame_length
         THEN PrErr(InvalidParameter("Invalid frame length"))
         ELSE IF frame[expected_frame_length - 1]
                    # CrcRange(65535, frame, 1, expected_frame_length - 2) % 256
              THEN PrErr(CrcMismatch)
              ELSE PrOk(response_words(frame))

\* the free function parse_response(frame) (frame[k+1] is byte k)
parse_response(frame) ==
    IF Len(frame) < 5 THEN PrErr(InvalidParameter("Frame too short"))
    ELSE IF frame[2] # 3 THEN PrErr(InvalidParameter("Invalid function code"))
    ELSE LET expected_frame_length == frame[3] + 5 IN
         IF Len(frame) # expected_frame_length
         THEN PrErr(InvalidParameter("Invalid frame length"))
         ELSE LET received_crc ==
                      u16_from_le_bytes(frame[expected_frame_length - 1],
                                        frame[expected_frame_length])
                  calculated_crc ==
                      CrcRange(65535, frame, 1, expected_frame_length - 2)
              IN  IF received_crc # calculated_crc THEN PrErr(CrcMismatch)
                  ELSE PrOk(response_words(frame))

\* a faulty variant: the buffer is cleared only after a decoded frame
process_byte_keeps_failed(buf, index, byte) ==
    LET pushed == Append(buf, byte) IN
    IF Len(pushed) < 5 \/ Len(pushed) < pushed[3] + 5
    THEN [ret |-> PbNone, buf |-> pushed]
    ELSE LET r == parse_response_buf(pushed, index)
         IN  [ret |-> r, buf |-> IF r.kind = "Some" THEN <<>> ELSE pushed]

\* a faulty variant: the parse waits for one byte more than declared
process_byte_waits_longer(buf, index, byte) ==
    LET pushed == Append(buf, byte) IN
    IF Len(pushed) < 5 \/ Len(pushed) <= pushed[3] + 5
    THEN [ret |-> PbNone, buf |-> pushed]
    ELSE [ret |-> parse_response_buf(pushed, index), buf |-> <<>>]

\* process_byte: the result and the buffer it leaves
process_byte(buf, index, byte) ==
    LET pushed == Append(buf, byte) IN
    IF Len(pushed) < 5 THEN [ret |-> PbNone, buf |-> pushed]
    ELSE IF Len(pushed) >= 3
         THEN IF Len(pushed) < pushed[3] + 5
              THEN [ret |-> PbNone, buf |-> pushed]
              ELSE [ret |-> parse_response_buf(pushed, index), buf |-> <<>>]
         ELSE [ret |-> PbNone, buf |-> pushed]

\* a faulty variant: the buffer is reset when it reaches the limit
should_reset_buffer_at_limit(buf) == Len(buf) >= RESET_THRESHOLD

\* a faulty variant: the buffer is reset one byte later
should_reset_buffer_late(buf) == Len(buf) > RESET_THRESHOLD + 1

should_reset_buffer(buf) == Len(buf) > RESET_THRESHOLD


(***************************************************************************)
(* SensorData (sensor.rs).  A scaled field is kept as the numerator of the *)
(* quotient the code computes: accelerometer value*16 over 32768,          *)
(* gyroscope value*2000 over 32768, angles value*180 over 32768,           *)
(* temperature value over 100; magnetometer is the raw value.              *)
(***************************************************************************)
\* SensorData::new / Default
SensorData_new ==
    [accelerometer |-> <<0, 0, 0>>, gyroscope |-> <<0, 0, 0>>,
     angles |-> <<0, 0, 0>>, magnetometer |-> <<0, 0, 0>>,
     temperature |-> 0, update_flags |-> {}]

\* a faulty variant: a group's flag is raised by its first address
extract_one_flags_at_x(data, reg, value) ==
    IF reg >= AX /\ reg <= AZ
    THEN [data EXCEPT !.accelerometer[reg - AX + 1] = value * 16,
                      !.update_flags = IF reg = AX THEN @ \cup {"ACC"} ELSE @]
    ELSE IF reg >= GX /\ reg <= GZ
    THEN [data EXCEPT !.gyroscope[reg - GX + 1] = value * 2000,
                      !.update_flags = IF reg = GX THEN @ \cup {"GYRO"} ELSE @]
    ELSE IF reg >= HX /\ reg <= HZ
    THEN [data EXCEPT !.magnetometer[reg - HX + 1] = value,
                      !.update_flags = IF reg = HX THEN @ \cup {"MAG"} ELSE @]
    ELSE IF reg >= ROLL /\ reg <= YAW
    THEN [data EXCEPT !.angles[reg - ROLL + 1] = value * 180,
                      !.update_flags = IF reg = ROLL THEN @ \cup {"ANGLE"} ELSE @]
    ELSE IF reg = TEMP
    THEN [data EXCEPT !.temperature = value]
    ELSE [data EXCEPT !.update_flags = @ \cup {"READ"}]

\* one iteration of the loop of extract_sensor_data: the match on reg
extract_one(data, reg, value) ==
    IF reg >= AX /\ reg <= AZ
    THEN [data EXCEPT !.accelerometer[reg - AX + 1] = value * 16,
                      !.update_flags = IF reg = AZ THEN @ \cup {"ACC"} ELSE @]
    ELSE IF reg >= GX /\ reg <= GZ
    THEN [data EXCEPT !.gyroscope[reg - GX + 1] = value * 2000,
                      !.update_flags = IF reg = GZ THEN @ \cup {"GYRO"} ELSE @]
    ELSE IF reg >= HX /\ reg <= HZ
    THEN [data EXCEPT !.magnetometer[reg - HX + 1] = value,
                      !.update_flags = IF reg = HZ THEN @ \cup {"MAG"} ELSE @]
    ELSE IF reg >= ROLL /\ reg <= YAW
    THEN [data EXCEPT !.angles[reg - ROLL + 1] = value * 180,
                      !.update_flags = IF reg = YAW THEN @ \cup {"ANGLE"} ELSE @]
    ELSE IF reg = TEMP
    THEN [data EXCEPT !.temperature = value]
    ELSE [data EXCEPT !.update_flags = @ \cup {"READ"}]

\* the iterations for values[i], .., values[j] in turn, starting from data
RECURSIVE extract_loop(_, _, _, _, _)
extract_loop(data, start_register, values, i, j) ==
    IF DOMAIN data = {} \/ i > j THEN data
    ELSE IF i = j
    THEN extract_one(data, reg_add(start_register, i - 1), values[i])
    ELSE LET m == (i + j) \div 2
         IN  extract_loop(extract_loop(data, start_register, values, i, m),
                          start_register, values, m + 1, j)

\* a faulty variant: the sample starts from values of an earlier frame
extract_sensor_data_stale(start_register, values) ==
    extract_loop([SensorData_new EXCEPT !.gyroscope = <<2000, 4000, 6000>>],
                 start_register, values, 1, Len(values))

extract_sensor_data(start_register, values) ==
    extract_loop(SensorData_new, start_register, values, 1, Len(values))

\* a faulty variant: the bank is replaced by the decoded registers
insert_registers_replaces(regs, start_reg, values) ==
    [a \in {reg_add(start_reg, i - 1) : i \in 1..Len(values)} |->
        values[CHOOSE i \in 1..Len(values) : reg_add(start_reg, i - 1) = a]]

\* process_incoming_data: for (i, &value) ... self.registers.insert(start_reg + i, value)
insert_registers(regs, start_reg, values) ==
    LET new == {reg_add(start_reg, i - 1) : i \in 1..Len(values)}
        last(a) == CHOOSE i \in 1..Len(values) :
                      /\ reg_add(start_reg, i - 1) = a
                      /\ \A j \in 1..Len(values) :
                            reg_add(start_reg, j - 1) = a => j <= i
    IN  [a \in (DOMAIN regs) \cup new |->
            IF a \in new THEN values[last(a)] ELSE regs[a]]

\* a faulty variant: a failed frame empties the bank
registers_after_error_reset(regs, ret) ==
    IF ret.kind = "Some" THEN insert_registers(regs, ret.start, ret.values)
    ELSE IF ret.kind = "Err" THEN [a \in {} |-> 0]
    ELSE regs

\* what one decode attempt does to the register bank
registers_after(regs, ret) ==
    IF ret.kind = "Some" THEN insert_registers(regs, ret.start, ret.values)
    ELSE regs

(***************************************************************************)
(* The sensor on the bus (environment).  Register a holds sensor_value(a); *)
(* a read request for (start, count) is answered with the well-formed      *)
(* response frame carrying those registers.                                *)
(***************************************************************************)
sensor_value(a) == IF a % 2 = 0 THEN a ELSE 0 - a

response_payload(start, count) ==
    [k \in 1..(2 * count) |->
        to_be_bytes(i16_as_u16(sensor_value(reg_add(start, (k - 1) \div 2))))
            [((k - 1) % 2) + 1]]

\* address, 0x03, byte count, big-endian values, CRC low byte first
response_frame(addr, start, count) ==
    LET body == <<addr, 3, 2 * count>> \o response_payload(start, count)
    IN  body \o to_le_bytes(checksum(body))

\* a burst of n bytes 0xFF (an idle line read at the wrong speed)
jabber(n) == [k \in 1..n |-> 255]

\* the bursts of noise the transport may deliver
NoiseScripts ==
    { \* a response cut after its function code
      SubSeq(response_frame(slave_address, AX, 3), 1, 2),
      \* five zero bytes: a complete frame with function code 0
      <<0, 0, 0, 0, 0>>,
      \* a response with its last CRC byte damaged
      LET f == response_frame(slave_address, AX, 3)
      IN  [f EXCEPT ![Len(f)] = (f[Len(f)] + 1) % 256] }

\* more bytes than the reassembly buffer tolerates
JabberScripts == {jabber(RESET_THRESHOLD + 1), jabber(RESET_THRESHOLD + 3)}

\* the speeds the sensor may be configured to (0: no sensor on the bus)
SensorBauds == {0, 9600, 19200}
\* arguments the caller passes to read_registers and write_register
ReadArgs == {<<GX, 3>>}
\* a caller that reads two ranges
WideArgs == {<<GX, 3>>, <<HX, 1>>}
WriteArgs == {<<RRATE, 6>>}

(***************************************************************************)
(* State.                                                                  *)
(***************************************************************************)
VARIABLES
    \* ModbusProtocol
    data_buffer, read_register_index,
    \* WitSensor
    registers, current_baud,
    \* WitSerial: the speed of the open port, the bytes waiting to be read
    port_baud, rx,
    \* the operation in progress, its position and its locals
    op, pc, idx, retry, sensor_data,
    \* what the last finished operation returned
    result,
    \* environment: the sensor's speed, whether set_baud_rate can reopen the
    \* device, the requests the sensor has not answered yet
    sensor_baud, reopen_ok, pending,
    \* environment budgets used so far: calls, bursts of noise, failed
    \* transport calls
    ops, sends, noise, faults,
    \* history of the reassembler: the last process_byte call, the bank when
    \* the buffered frame's first byte was fed, the bytes fed since the last
    \* decoded frame
    last_pb, frame_bank, fed,
    \* history of the requests: the arguments of the last
    \* generate_read_request, the last frame written to the transport
    last_request, tx,
    \* history of auto_scan: for each speed passed to set_baud_rate, whether
    \* it was set and the trial reads issued at it
    applied,
    \* history of the transport: whether any byte was delivered; whether
    \* every request heard by the sensor was answered within the wait that
    \* followed it, with no noise at the sensor's speed
    delivered, on_time,
    \* history of the operation in progress or last returned: whether it
    \* attempted a parse, whether one of its transport calls (write, flush,
    \* read, discard input) failed
    call,
    \* a call of one of the library's pure functions outside any session:
    \* the function, its arguments and, once it was applied, what it returned
    codec

vars == <<data_buffer, read_register_index, registers, current_baud,
          port_baud, rx, op, pc, idx, retry, sensor_data, result,
          sensor_baud, reopen_ok, pending, ops, sends, noise, faults,
          last_pb, frame_bank, fed, last_request, tx, applied,
          delivered, on_time, call, codec>>

\* groups of variables, for UNCHANGED; no step of a session touches codec
bus == <<sensor_baud, reopen_ok, codec>>
port == <<current_baud, port_baud>>
bank == <<registers, last_pb, frame_bank, fed>>
line == <<noise, delivered, on_time>>
scan == <<idx, retry, applied>>
request == <<read_register_index, last_request, tx, pending>>

NoResult == [op |-> "none", kind |-> "none", err |-> NoErr, baud |-> 0,
             data |-> <<>>]
Ok(o, b, d) == [op |-> o, kind |-> "Ok", err |-> NoErr, baud |-> b, data |-> d]
Err(o, e) == [op |-> o, kind |-> "Err", err |-> e, baud |-> 0, data |-> <<>>]

\* WitSensor::new, ModbusProtocol::new, WitSerial::open
NoCall == [fn |-> "none", arg |-> <<>>, done |-> FALSE, out |-> <<>>]

\* WitSensor::new
InitSession ==
    /\ data_buffer = <<>>
    /\ read_register_index = 0
    /\ registers = [a \in {} |-> 0]
    /\ current_baud = default_baud
    /\ port_baud = default_baud
    /\ rx = <<>>
    /\ op = "none" /\ pc = "idle" /\ idx = 0 /\ retry = 0
    /\ sensor_data = <<>>
    /\ result = NoResult
    /\ sensor_baud \in SensorBauds
    /\ reopen_ok \in BOOLEAN
    /\ pending = <<>>
    /\ ops = 0 /\ sends = 0 /\ noise = 0 /\ faults = 0
    /\ last_pb = <<>>
    /\ frame_bank = [a \in {} |-> 0]
    /\ fed = <<>>
    /\ last_request = <<0, 0>>
    /\ tx = <<>>
    /\ applied = <<>>
    /\ delivered = FALSE /\ on_time = TRUE
    /\ call = [attempts |-> FALSE, failed |-> FALSE]

Init == InitSession /\ codec = NoCall

(***************************************************************************)
(* send_data: serial.write(data)?; serial.flush()?.  The outcomes are      *)
(* "ok", "write" (write failed) and "flush" (flush failed).  The sensor    *)
(* hears a request that was written at its own speed.                      *)
(***************************************************************************)
\* the history of an operation that is called now; failed: its send failed
NewCall(failed) == [attempts |-> FALSE, failed |-> failed]

\* the last FedWindow bytes of the history s
Window(s) == IF Len(s) > FedWindow THEN Tail(s) ELSE s

\* the disturbances still allowed
MayFail == noise + faults < MaxFaults

SendOutcomes == {"ok"} \cup (IF MayFail THEN {"write", "flush"} ELSE {})

heard(outcome, req) ==
    IF outcome # "write" /\ port_baud = sensor_baud THEN <<req>> ELSE <<>>

\* read_registers(start_register, count) with the given send_data outcome
read_registers(start_register, count, outcome) ==
    LET g == generate_read_request(start_register, count) IN
    /\ read_register_index' = g.read_register_index
    /\ last_request' = <<start_register, count>>
    /\ tx' = IF outcome # "write" THEN g.frame ELSE tx
    /\ pending' = pending \o heard(outcome, [start |-> start_register,
                                              count |-> count])
    /\ faults' = IF outcome = "ok" THEN faults ELSE faults + 1

\* the operation in progress returns r to its caller
Return(r) ==
    /\ result' = r
    /\ op' = "none" /\ pc' = "idle" /\ idx' = 0 /\ retry' = 0

(***************************************************************************)
(* auto_scan.                                                              *)
(***************************************************************************)
\* called on the new session, before any other operation (as test-reader does)
AutoScan ==
    /\ pc = "idle" /\ ops = 0 /\ sends = 0 /\ ops < MaxOps
    /\ ops' = ops + 1
    /\ op' = "auto_scan" /\ pc' = "scan_apply" /\ idx' = 1 /\ retry' = 0
    /\ result' = NoResult
    /\ applied' = <<>>
    /\ call' = NewCall(FALSE)
    /\ UNCHANGED <<data_buffer, request, bank, port, rx, sensor_data, bus, line,
                   sends, faults>>

\* for &baud_rate in SUPPORTED_BAUD_RATES: exhausted
ScanExhausted ==
    /\ pc = "scan_apply" /\ idx > Len(SUPPORTED_BAUD_RATES)
    /\ Return(Err("auto_scan", SensorNotFound))
    /\ UNCHANGED <<data_buffer, request, bank, port, rx, sensor_data, bus, line,
                   ops, sends, faults, call, applied>>

\* a faulty variant: the speed is recorded before it is known to be set
ScanApplyFails_records_speed ==
    /\ pc = "scan_apply" /\ idx <= Len(SUPPORTED_BAUD_RATES)
    /\ ~reopen_ok \/ MayFail
    /\ faults' = IF reopen_ok THEN faults + 1 ELSE faults
    /\ applied' = Append(applied, [baud |-> SUPPORTED_BAUD_RATES[idx],
                                   set |-> FALSE, trials |-> 0])
    /\ current_baud' = SUPPORTED_BAUD_RATES[idx]
    /\ idx' = idx + 1
    /\ UNCHANGED <<data_buffer, request, bank, port_baud, rx, op, pc, retry,
                   sensor_data, result, bus, line, ops, sends, call>>

\* set_baud_rate(baud_rate) fails: the candidate is skipped
ScanApplyFails ==
    /\ pc = "scan_apply" /\ idx <= Len(SUPPORTED_BAUD_RATES)
    /\ ~reopen_ok \/ MayFail
    /\ faults' = IF reopen_ok THEN faults + 1 ELSE faults
    /\ UNCHANGED call
    /\ applied' = Append(applied, [baud |-> SUPPORTED_BAUD_RATES[idx],
                                   set |-> FALSE, trials |-> 0])
    /\ idx' = idx + 1
    /\ UNCHANGED <<data_buffer, request, bank, port, rx, op, pc, retry,
                   sensor_data, result, bus, line, ops, sends>>

\* set_baud_rate succeeds; clear_input_buffer()? discards the input
ScanApply ==
    /\ pc = "scan_apply" /\ idx <= Len(SUPPORTED_BAUD_RATES)
    /\ reopen_ok
    /\ applied' = Append(applied, [baud |-> SUPPORTED_BAUD_RATES[idx],
                                   set |-> TRUE, trials |-> 0])
    /\ port_baud' = SUPPORTED_BAUD_RATES[idx]
    /\ current_baud' = SUPPORTED_BAUD_RATES[idx]
    /\ \/ /\ rx' = <<>>
          /\ retry' = 0 /\ pc' = "scan_trial"
          /\ UNCHANGED <<op, idx, result, faults, call>>
       \/ /\ MayFail
          /\ faults' = faults + 1
          /\ call' = [call EXCEPT !.failed = TRUE]
          /\ rx' \in {rx, <<>>}
          /\ Return(Err("auto_scan", Io))
    /\ UNCHANGED <<data_buffer, request, bank, sensor_data, bus, line, ops, sends>>

\* a faulty variant: a candidate may be left after one trial
ScanNext_after_one ==
    /\ pc = "scan_trial" /\ retry >= 1
    /\ idx' = idx + 1 /\ pc' = "scan_apply" /\ retry' = 2
    /\ UNCHANGED <<data_buffer, request, bank, port, rx, op,
                   sensor_data, result, bus, line, ops, sends, faults, call,
                   applied>>

\* for _retry in 0..2: both trials done, next candidate
ScanNext ==
    /\ pc = "scan_trial" /\ retry >= 2
    /\ idx' = idx + 1 /\ pc' = "scan_apply"
    /\ UNCHANGED <<data_buffer, request, bank, port, rx, op, retry,
                   sensor_data, result, bus, line, ops, sends, faults, call,
                   applied>>

\* if let Ok(()) = self.read_registers(AX, 3) { sleep(200 ms); ... }
ScanTrial ==
    /\ pc = "scan_trial" /\ retry < 2
    /\ \E outcome \in SendOutcomes :
          /\ read_registers(AX, 3, outcome)
          /\ call' = [call EXCEPT !.failed = @ \/ outcome # "ok"]
          /\ IF outcome = "ok"
             THEN pc' = "sleep" /\ retry' = retry
             ELSE pc' = pc /\ retry' = retry + 1
    /\ applied' = [applied EXCEPT ![Len(applied)].trials = @ + 1]
    /\ UNCHANGED <<data_buffer, bank, port, rx, op, idx, sensor_data, result,
                   bus, line, ops, sends>>

(***************************************************************************)
(* read_registers, write_register, read_sensor_data, process_incoming_data *)
(* called by the owner of the session.                                     *)
(***************************************************************************)
ReadRegistersFrom(args) ==
    /\ pc = "idle" /\ ops = 0 /\ sends < MaxSends
    /\ sends' = sends + 1
    /\ \E a \in args, outcome \in SendOutcomes :
          /\ read_registers(a[1], a[2], outcome)
          /\ call' = NewCall(outcome # "ok")
          /\ result' = IF outcome = "ok" THEN Ok("read_registers", 0, <<>>)
                       ELSE Err("read_registers", Io)
    /\ UNCHANGED <<data_buffer, bank, port, rx, op, pc, scan, sensor_data,
                   bus, line, ops>>

ReadRegisters == ReadRegistersFrom(ReadArgs)

WriteRegister ==
    /\ pc = "idle" /\ ops = 0 /\ sends < MaxSends
    /\ sends' = sends + 1
    /\ \E a \in WriteArgs, outcome \in SendOutcomes :
          /\ tx' = IF outcome # "write"
                   THEN generate_write_request(a[1], a[2]) ELSE tx
          /\ faults' = IF outcome = "ok" THEN faults ELSE faults + 1
          /\ call' = NewCall(outcome # "ok")
          /\ result' = IF outcome = "ok" THEN Ok("write_register", 0, <<>>)
                       ELSE Err("write_register", Io)
    /\ UNCHANGED <<data_buffer, read_register_index, last_request,
                   pending, bank, port, rx, op, pc, scan, sensor_data, bus, line,
                   ops>>

\* self.read_registers(AX, DEFAULT_READ_COUNT)?; sleep(50 ms); ...
ReadSensorData ==
    /\ pc = "idle" /\ ops < MaxOps
    /\ ops' = ops + 1
    /\ \E outcome \in SendOutcomes :
          /\ read_registers(AX, DEFAULT_READ_COUNT, outcome)
          /\ call' = NewCall(outcome # "ok")
          /\ IF outcome = "ok"
             THEN op' = "read_sensor_data" /\ pc' = "sleep"
                  /\ result' = NoResult
             ELSE op' = op /\ pc' = pc
                  /\ result' = Err("read_sensor_data", Io)
    /\ UNCHANGED <<data_buffer, bank, port, rx, scan, sensor_data, bus, line,
                   sends>>

ProcessIncomingData ==
    /\ pc = "idle" /\ ops < MaxOps
    /\ ops' = ops + 1
    /\ op' = "process_incoming_data" /\ pc' = "sleep"
    /\ sensor_data' = <<>>
    /\ result' = NoResult
    /\ call' = NewCall(FALSE)
    /\ UNCHANGED <<data_buffer, request, bank, port, rx, scan, bus, line, sends,
                   faults>>

\* the wait before process_incoming_data is over: let mut sensor_data = None
Wake ==
    /\ pc = "sleep"
    /\ pc' = "pid"
    /\ sensor_data' = <<>>
    /\ on_time' = (on_time /\ pending = <<>>)
    /\ UNCHANGED <<data_buffer, request, bank, port, rx, op, scan, result,
                   bus, noise, delivered, ops, sends, faults, call>>

(***************************************************************************)
(* process_incoming_data: one iteration of its loop per step.              *)
(***************************************************************************)
\* ModbusProtocol::clear_buffer
clear_buffer == <<>>

\* process_incoming_data returns (kind, err, data) to the operation op
\* a faulty variant: process_incoming_data returns Ok(None) whatever it decoded
PidReturn_drops_sample(kind, err, data) ==
    IF op = "auto_scan"
    THEN IF kind = "Err"
         THEN Return(Err("auto_scan", err))
         ELSE IF data # <<>>
         THEN Return(Ok("auto_scan", SUPPORTED_BAUD_RATES[idx], <<>>))
         ELSE /\ retry' = retry + 1 /\ pc' = "scan_trial"
              /\ UNCHANGED <<op, idx, result>>
    ELSE IF op = "read_sensor_data"
    THEN Return(IF kind = "Err" THEN Err(op, err)
                ELSE Ok(op, 0, IF data = <<>> THEN <<SensorData_new>>
                               ELSE data))
    ELSE Return(IF kind = "Err" THEN Err(op, err) ELSE Ok(op, 0, <<>>))

PidReturn(kind, err, data) ==
    IF op = "auto_scan"
    THEN IF kind = "Err"
         \* self.process_incoming_data()? propagates the error
         THEN Return(Err("auto_scan", err))
         ELSE IF data # <<>>
         \* .is_some(): return Ok(baud_rate)
         THEN Return(Ok("auto_scan", SUPPORTED_BAUD_RATES[idx], <<>>))
         ELSE /\ retry' = retry + 1 /\ pc' = "scan_trial"
              /\ UNCHANGED <<op, idx, result>>
    ELSE IF op = "read_sensor_data"
    THEN Return(IF kind = "Err" THEN Err(op, err)
                ELSE Ok(op, 0, IF data = <<>> THEN <<SensorData_new>>
                               ELSE data))
    ELSE Return(IF kind = "Err" THEN Err(op, err) ELSE Ok(op, 0, data))

\* self.serial.read_byte()? fails
PidReadFails ==
    /\ pc = "pid" /\ MayFail
    /\ faults' = faults + 1
    /\ call' = [call EXCEPT !.failed = TRUE]
    /\ PidReturn("Err", Io, <<>>)
    /\ UNCHANGED <<data_buffer, request, bank, port, rx, sensor_data, bus, line,
                   ops, sends, applied>>

\* read_byte() = None: break; Ok(sensor_data)
PidDone ==
    /\ pc = "pid" /\ rx = <<>>
    /\ PidReturn("Ok", NoErr, sensor_data)
    /\ UNCHANGED <<data_buffer, request, bank, port, rx, sensor_data, bus, line,
                   ops, sends, faults, call, applied>>

\* read_byte() = Some(byte): process_byte(byte)?, bank update, valve
PidByte ==
    /\ pc = "pid" /\ rx # <<>>
    /\ LET byte == Head(rx)
           r == process_byte(data_buffer, read_register_index, byte)
       IN  /\ rx' = Tail(rx)
           /\ last_pb' = <<[pre |-> data_buffer, byte |-> byte,
                            index |-> read_register_index,
                            request |-> last_request,
                            ret |-> r.ret, post |-> r.buf]>>
           /\ fed' = IF last_pb # <<>> /\ last_pb[1].ret.kind = "Some"
                      THEN <<byte>> ELSE Window(Append(fed, byte))
           /\ call' = [call EXCEPT !.attempts = @ \/ r.ret.kind # "None"]
           /\ frame_bank' = IF data_buffer = <<>> THEN registers
                            ELSE frame_bank
           /\ registers' = registers_after(registers, r.ret)
           /\ IF r.ret.kind = "Err"
              THEN /\ data_buffer' = r.buf
                   /\ PidReturn("Err", r.ret.err, <<>>)
                   /\ UNCHANGED sensor_data
              ELSE /\ sensor_data' =
                         IF r.ret.kind = "Some"
                         THEN <<extract_sensor_data(r.ret.start, r.ret.values)>>
                         ELSE sensor_data
                   /\ data_buffer' = IF should_reset_buffer(r.buf)
                                     THEN clear_buffer ELSE r.buf
                   /\ UNCHANGED <<op, pc, idx, retry, result>>
    /\ UNCHANGED <<request, port, bus, line, ops, sends, faults, applied>>

(***************************************************************************)
(* The transport's input (environment).  Bytes that arrive before the      *)
(* loop of process_incoming_data finds the input empty are read by it, so  *)
(* they are delivered before the loop starts: the sensor answers its       *)
(* oldest unanswered request, or noise arrives.                            *)
(***************************************************************************)
DeviceRespond ==
    /\ pc = "sleep"
    /\ pending # <<>> /\ port_baud = sensor_baud
    /\ rx' = rx \o response_frame(slave_address, Head(pending).start,
                                  Head(pending).count)
    /\ pending' = Tail(pending)
    /\ delivered' = TRUE
    /\ UNCHANGED <<data_buffer, read_register_index, last_request, tx,
                   bank, port, op, pc, scan, sensor_data, result, bus, noise,
                   on_time, ops, sends, faults, call>>

DeliverNoise ==
    /\ pc = "sleep"
    /\ MayFail
    /\ noise' = noise + 1
    /\ \E s \in NoiseScripts : rx' = rx \o s
    /\ delivered' = TRUE
    /\ on_time' = (on_time /\ port_baud # sensor_baud)
    /\ UNCHANGED <<data_buffer, request, bank, port, op, pc, scan,
                   sensor_data, result, bus, ops, sends, faults, call>>

Next ==
    \/ AutoScan \/ ScanExhausted \/ ScanApplyFails \/ ScanApply
    \/ ScanNext \/ ScanTrial
    \/ ReadRegisters \/ WriteRegister \/ ReadSensorData
    \/ ProcessIncomingData \/ Wake
    \/ PidReadFails \/ PidDone \/ PidByte
    \/ DeviceRespond \/ DeliverNoise

Spec == Init /\ [][Next]_vars

(***************************************************************************)
(* A line that jabbers: a burst longer than the reassembly buffer may grow *)
(* arrives during a wait.  SpecValve is the session that reads the sensor  *)
(* on such a line.                                                         *)
(***************************************************************************)
DeliverJabber ==
    /\ pc = "sleep"
    /\ MayFail
    /\ noise' = noise + 1
    /\ \E s \in JabberScripts : rx' = rx \o s
    /\ delivered' = TRUE
    /\ on_time' = (on_time /\ port_baud # sensor_baud)
    /\ UNCHANGED <<data_buffer, request, bank, port, op, pc, scan,
                   sensor_data, result, bus, ops, sends, faults, call>>

NextValve ==
    \/ ReadSensorData \/ ProcessIncomingData \/ Wake
    \/ PidReadFails \/ PidDone \/ PidByte
    \/ DeviceRespond \/ DeliverJabber

SpecValve == Init /\ [][NextValve]_vars

(***************************************************************************)
(* The vocabulary of the properties, from the wire format alone.           *)
(***************************************************************************)
\* the bytes of f before its two checksum bytes
FrameBody(f) == SubSeq(f, 1, Len(f) - 2)

\* the checksum carried by the last two bytes of f, low byte first
CarriedCrc(f) == f[Len(f) - 1] + 256 * f[Len(f)]

\* f is a read response: [address, 0x03, n, n payload bytes, crc lo, crc hi]
WellFormedResponse(f) ==
    /\ Len(f) >= 5
    /\ f[2] = 3
    /\ Len(f) = f[3] + 5
    /\ CarriedCrc(f) = checksum(FrameBody(f))

\* f is a strict prefix of some read response
PrefixOfResponse(f) ==
    /\ Len(f) >= 2 => f[2] = 3
    /\ Len(f) >= 3 =>
          /\ Len(f) < f[3] + 5
          /\ Len(f) = f[3] + 4 =>
                f[Len(f)] = checksum(SubSeq(f, 1, f[3] + 3)) % 256

\* the payload of f as big-endian two's-complement 16-bit words
PayloadWords(f) ==
    [i \in 1..(f[3] \div 2) |->
        LET w == 256 * f[2 + 2 * i] + f[3 + 2 * i]
        IN  IF w >= 32768 THEN w - 65536 ELSE w]

\* the frame the last process_byte call completed or extended
LastFrame == Append(last_pb[1].pre, last_pb[1].byte)

\* the last n bytes fed to the reassembler
FedSuffix(n) == SubSeq(fed, Len(fed) - n + 1, Len(fed))

\* the fed bytes end with a read response of n bytes
FedEndsWithResponse(n) ==
    /\ n >= 5 /\ n <= Len(fed)
    /\ fed[Len(fed) - n + 2] = 3
    /\ fed[Len(fed) - n + 3] = n - 5
    /\ WellFormedResponse(FedSuffix(n))

(***************************************************************************)
(* C1: fed a well-formed response one byte at a time, process_byte returns *)
(* Ok(None) for every byte but the last and, for the last, the pair of     *)
(* read_register_index and the payload decoded as big-endian signed words. *)
(***************************************************************************)
C1_WellFormedFrameDecodes ==
    last_pb # <<>> =>
        LET c == last_pb[1] IN
        /\ WellFormedResponse(LastFrame) =>
              c.ret = PbSome(c.index, PayloadWords(LastFrame))
        /\ PrefixOfResponse(LastFrame) => c.ret = PbNone

C1_Witness ==
    /\ last_pb # <<>>
    /\ WellFormedResponse(LastFrame)
    /\ last_pb[1].ret.kind = "Some"
    /\ Len(last_pb[1].pre) = 28
    /\ \E i \in 1..12 : last_pb[1].ret.values[i] < 0

(***************************************************************************)
(* C2: read_register_index is the start register of the most recent call   *)
(* of generate_read_request (0 before any), whatever write requests were   *)
(* generated since, and it is the start register of every decoded pair.    *)
(***************************************************************************)
C2_IndexIsLastReadStart ==
    /\ read_register_index = last_request[1]
    /\ last_pb # <<>> /\ last_pb[1].ret.kind = "Some" =>
          last_pb[1].ret.start = last_pb[1].request[1]

C2_Witness ==
    /\ last_pb # <<>> /\ last_pb[1].ret.kind = "Some"
    /\ last_pb[1].ret.start = GX
    /\ tx = generate_write_request(RRATE, 6)

(***************************************************************************)
(* C3: every decoded response is labelled with the start register of the   *)
(* request that elicited it: the decoded words of a response of the sensor *)
(* are the contents of the registers from the returned start register on.  *)
(***************************************************************************)
C3_ResponseLabelledByItsRequest ==
    last_pb # <<>> /\ last_pb[1].ret.kind = "Some"
                   /\ LastFrame[1] = slave_address =>
        \A i \in 1..Len(last_pb[1].ret.values) :
            last_pb[1].ret.values[i] =
                sensor_value(reg_add(last_pb[1].ret.start, i - 1))

(***************************************************************************)
(* C4: process_byte leaves the buffer empty whenever it attempted a parse  *)
(* (a decoded frame or an error), and holding the bytes fed so far         *)
(* otherwise.                                                              *)
(***************************************************************************)
C4_BufferClearedAfterParse ==
    last_pb # <<>> =>
        LET c == last_pb[1] IN
        /\ c.ret.kind \in {"Some", "Err"} => c.post = <<>>
        /\ c.ret.kind = "None" => c.post = LastFrame

C4_Witness ==
    /\ last_pb # <<>>
    /\ last_pb[1].ret = PbErr(CrcMismatch)
    /\ Len(last_pb[1].pre) >= 4
    /\ data_buffer = <<>>

(***************************************************************************)
(* C5: after any truncated or garbled bytes, a fresh well-formed response  *)
(* fed immediately afterwards is decoded: whenever the bytes fed end with  *)
(* a well-formed response, the last byte returned that response's words.   *)
(***************************************************************************)
C5_FreshFrameDecodes ==
    last_pb # <<>> =>
        \A n \in 5..Len(fed) :
            FedEndsWithResponse(n) =>
                /\ last_pb[1].ret.kind = "Some"
                /\ last_pb[1].ret.values = PayloadWords(FedSuffix(n))

(***************************************************************************)
(* C6: whenever more than 256 bytes were fed through the receive loop      *)
(* without a complete valid frame, the buffer has been reset, so that a    *)
(* fresh well-formed response fed immediately afterwards is decoded.       *)
(***************************************************************************)
C6_ValveThenFreshFrameDecodes ==
    last_pb # <<>> =>
        \A n \in 5..Len(fed) :
            FedEndsWithResponse(n) /\ Len(fed) - n > RESET_THRESHOLD =>
                /\ last_pb[1].ret.kind = "Some"
                /\ last_pb[1].ret.values = PayloadWords(FedSuffix(n))

(***************************************************************************)
(* C7: when a frame fails to decode, the register bank is what it was      *)
(* before that frame's first byte was fed.                                 *)
(***************************************************************************)
C7_FailedFrameLeavesBank ==
    last_pb # <<>> /\ last_pb[1].ret.kind = "Err" => registers = frame_bank

C7_Witness ==
    /\ last_pb # <<>> /\ last_pb[1].ret.kind = "Err"
    /\ result.kind = "Err"
    /\ DOMAIN registers # {}
    /\ registers = frame_bank

(***************************************************************************)
(* C8: on a length-complete frame, a function code other than 0x03 is      *)
(* reported as InvalidParameter before the checksum is looked at; with     *)
(* function code 0x03, a checksum that differs is reported as CrcMismatch; *)
(* otherwise the frame is decoded.                                         *)
(***************************************************************************)
C8_FunctionCodeBeforeCrc ==
    last_pb # <<>> /\ Len(LastFrame) >= 5
                   /\ Len(LastFrame) >= LastFrame[3] + 5 =>
        LET c == last_pb[1] IN
        /\ c.post = <<>>
        /\ IF LastFrame[2] # 3
           THEN c.ret = PbErr(InvalidParameter("Invalid function code"))
           ELSE IF CarriedCrc(LastFrame) # checksum(FrameBody(LastFrame))
           THEN c.ret = PbErr(CrcMismatch)
           ELSE c.ret.kind = "Some"

C8_Witness ==
    /\ last_pb # <<>> /\ Len(LastFrame) >= 5
    /\ Len(LastFrame) = LastFrame[3] + 5
    /\ LastFrame[2] # 3
    /\ CarriedCrc(LastFrame) # checksum(FrameBody(LastFrame))
    /\ last_pb[1].ret.err.tag = "InvalidParameter"

\* the speeds auto_scan passed to set_baud_rate, in order
AppliedBauds == [i \in 1..Len(applied) |-> applied[i].baud]

\* the candidates up to and including the speed b
CandidatesUpTo(b) ==
    SubSeq(SUPPORTED_BAUD_RATES, 1,
           CHOOSE k \in 1..Len(SUPPORTED_BAUD_RATES) :
               SUPPORTED_BAUD_RATES[k] = b)

\* the transport answers trial reads correctly at the sensor's speed, a
\* candidate, and at no other speed; none of its calls fails
AnswersAtOneSpeed ==
    /\ \E k \in 1..Len(SUPPORTED_BAUD_RATES) :
           SUPPORTED_BAUD_RATES[k] = sensor_baud
    /\ reopen_ok /\ faults = 0
    /\ on_time

(***************************************************************************)
(* C9: with a transport that answers trial reads correctly at exactly one  *)
(* candidate speed, auto_scan returns that speed, and the speeds it        *)
(* applied are the candidates up to that speed, in list order.             *)
(***************************************************************************)
C9_ScanFindsTheSpeed ==
    result.op = "auto_scan" /\ AnswersAtOneSpeed =>
        /\ result = Ok("auto_scan", sensor_baud, <<>>)
        /\ AppliedBauds = CandidatesUpTo(sensor_baud)

(***************************************************************************)
(* C10: auto_scan returns SensorNotFound only after it applied every       *)
(* candidate once, in list order, and issued exactly 2 trial reads of 3    *)
(* registers from AX at each candidate whose speed could be set.           *)
(***************************************************************************)
C10_NotFoundAfterEveryCandidate ==
    result = Err("auto_scan", SensorNotFound) =>
        /\ AppliedBauds = SUPPORTED_BAUD_RATES
        /\ \A i \in 1..Len(applied) :
              applied[i].trials = IF applied[i].set THEN 2 ELSE 0
        /\ (\E i \in 1..Len(applied) : applied[i].set) =>
              /\ last_request = <<AX, 3>>
              /\ read_register_index = AX

C10_Witness ==
    /\ result = Err("auto_scan", SensorNotFound)
    /\ ~delivered /\ reopen_ok /\ faults = 0
    /\ \A i \in 1..Len(applied) : applied[i].trials = 2
    /\ tx = generate_read_request(AX, 3).frame

\* without line noise the scan of C9 does find the speed
ScanFindsTheSpeedOnQuietLine ==
    result.op = "auto_scan" /\ AnswersAtOneSpeed /\ noise = 0 =>
        /\ result = Ok("auto_scan", sensor_baud, <<>>)
        /\ AppliedBauds = CandidatesUpTo(sensor_baud)

(***************************************************************************)
(* C11: a structurally invalid or CRC-failing frame received in a trial is *)
(* a failed decode attempt only: the one failure of an auto_scan whose     *)
(* transport calls do not fail is SensorNotFound.                          *)
(***************************************************************************)
C11_FrameErrorsAreNotFatal ==
    result.op = "auto_scan" /\ result.kind = "Err" /\ faults = 0 =>
        result.err = SensorNotFound

\* the speed of the last candidate that was set, default_baud if none was
LastSetBaud ==
    LET S == {i \in 1..Len(applied) : applied[i].set}
    IN  IF S = {} THEN default_baud
        ELSE applied[CHOOSE i \in S : \A j \in S : j <= i].baud

(***************************************************************************)
(* C12: in auto_scan a candidate whose speed cannot be set is skipped: no  *)
(* request is sent at it, current_baud keeps its value, the scan goes on   *)
(* with the next candidate in the list; when no candidate can be set the   *)
(* result is SensorNotFound.                                               *)
(***************************************************************************)
C12_FailedCandidateIsSkipped ==
    (op = "auto_scan" \/ result.op = "auto_scan") =>
        /\ AppliedBauds = SubSeq(SUPPORTED_BAUD_RATES, 1, Len(applied))
        /\ \A i \in 1..Len(applied) : ~applied[i].set => applied[i].trials = 0
        /\ current_baud = LastSetBaud /\ port_baud = LastSetBaud
        /\ (result.op = "auto_scan" /\ \A i \in 1..Len(applied) : ~applied[i].set) =>
              /\ result = Err("auto_scan", SensorNotFound)
              /\ Len(applied) = Len(SUPPORTED_BAUD_RATES)
              /\ tx = <<>>

C12_Witness ==
    /\ result = Err("auto_scan", SensorNotFound)
    /\ ~reopen_ok
    /\ Len(applied) = Len(SUPPORTED_BAUD_RATES)
    /\ current_baud = default_baud

(***************************************************************************)
(* C13: whenever a transport call (write, flush, read, discard input)      *)
(* fails during a session operation, the trial reads of auto_scan          *)
(* included, the operation returns the transport's error.                  *)
(***************************************************************************)
C13_TransportErrorsSurface ==
    result.kind # "none" /\ call.failed => result = Err(result.op, Io)

(***************************************************************************)
(* A caller that reads two register ranges and then polls: SpecBank is the *)
(* session whose bank receives responses for different ranges.             *)
(***************************************************************************)
ReadRegistersWide == ReadRegistersFrom(WideArgs)

NextBank ==
    \/ ReadRegistersWide \/ ReadSensorData \/ ProcessIncomingData
    \/ Wake \/ PidDone \/ PidByte \/ DeviceRespond

SpecBank == Init /\ [][NextBank]_vars

\* this step decoded a frame
DecodedNow == last_pb' # last_pb /\ last_pb'[1].ret.kind = "Some"

\* the addresses s, s+1, ... of a decoded pair
DecodedAddresses(ret) == {ret.start + i - 1 : i \in 1..Len(ret.values)}

(***************************************************************************)
(* C14: the key set of the register bank never shrinks; a decode of        *)
(* (s, values) sets bank[s+i] = values[i] for every i and leaves every     *)
(* other entry as it was; no other step changes the bank.                  *)
(***************************************************************************)
C14_BankUpdatedMonotonically ==
    [][ /\ DOMAIN registers \subseteq DOMAIN registers'
        /\ IF DecodedNow
           THEN LET ret == last_pb'[1].ret IN
                /\ DOMAIN registers' = DOMAIN registers \cup DecodedAddresses(ret)
                /\ \A i \in 1..Len(ret.values) :
                      registers'[ret.start + i - 1] = ret.values[i]
                /\ \A a \in DOMAIN registers \ DecodedAddresses(ret) :
                      registers'[a] = registers[a]
           ELSE registers' = registers ]_vars

C14_Witness ==
    /\ last_pb # <<>> /\ last_pb[1].ret.kind = "Some"
    /\ \E a \in DOMAIN frame_bank \ DecodedAddresses(last_pb[1].ret) :
          registers[a] = frame_bank[a]
    /\ \E a \in DOMAIN frame_bank \cap DecodedAddresses(last_pb[1].ret) :
          registers[a] # frame_bank[a]

\* a step of read_sensor_data during which no parse was attempted so far
QuietPollStep == op = "read_sensor_data" /\ ~call'.attempts

\* this step fed a byte to the reassembler
FedNow == last_pb' # last_pb

\* this step returns from read_sensor_data, none of its transport calls
\* having failed
PollReturnsNow == op = "read_sensor_data" /\ op' = "none" /\ ~call'.failed

(***************************************************************************)
(* C15: a read_sensor_data call during which no complete frame arrived     *)
(* returns Ok with the all-zero sample without flags, leaves the bank      *)
(* unchanged and keeps every byte it received in the reassembly buffer.    *)
(***************************************************************************)
C15_QuietPollKeepsBytes ==
    [][ QuietPollStep =>
          /\ registers' = registers
          /\ FedNow => data_buffer' = Append(data_buffer, Head(rx))
          /\ ~FedNow => data_buffer' = data_buffer
          /\ PollReturnsNow =>
                result' = Ok("read_sensor_data", 0, <<SensorData_new>>) ]_vars

(***************************************************************************)
(* C15, amended: as above, except that the bytes received are dropped when *)
(* the buffer comes to hold more than 256 bytes; the result is Ok when no  *)
(* transport call of the read failed.                                      *)
(***************************************************************************)
C15_QuietPollKeepsBytesUpToValve ==
    [][ QuietPollStep =>
          /\ registers' = registers
          /\ FedNow => data_buffer' = IF Len(data_buffer) + 1 > RESET_THRESHOLD
                                      THEN <<>>
                                      ELSE Append(data_buffer, Head(rx))
          /\ ~FedNow => data_buffer' = data_buffer
          /\ PollReturnsNow =>
                result' = Ok("read_sensor_data", 0, <<SensorData_new>>) ]_vars

C15_Witness ==
    /\ result = Ok("read_sensor_data", 0, <<SensorData_new>>)
    /\ ~call.attempts /\ ~call.failed
    /\ Len(fed) > RESET_THRESHOLD
    /\ data_buffer = <<255, 255>>
    /\ DOMAIN registers = {}

(***************************************************************************)
(* A transport that keeps delivering bytes: whenever the receive loop has  *)
(* emptied the input, another byte 0xFF may already be there.  SpecStream  *)
(* is auto_scan on such a line, with no sensor on the bus; the program's   *)
(* own steps are always taken eventually (weak fairness), the line is free *)
(* to deliver or not.  The stream is one disturbance, however long.        *)
(***************************************************************************)
StreamByte ==
    /\ pc = "pid" /\ rx = <<>>
    /\ noise > 0 \/ MayFail
    /\ noise' = IF noise = 0 THEN 1 ELSE noise
    /\ rx' = <<255>>
    /\ delivered' = TRUE
    /\ on_time' = (on_time /\ port_baud # sensor_baud)
    /\ UNCHANGED <<data_buffer, request, bank, port, op, pc, scan,
                   sensor_data, result, bus, ops, sends, faults, call>>

InitStream == Init /\ sensor_baud = 0

\* the steps of the program inside auto_scan
ScanStep ==
    \/ ScanExhausted \/ ScanApplyFails \/ ScanApply \/ ScanNext \/ ScanTrial
    \/ Wake \/ PidDone \/ PidByte

NextStream == AutoScan \/ ScanStep \/ StreamByte

\* weak fairness of the program's steps; for ScanTrial, which is enabled
\* exactly when a trial is due, it is stated on that condition
SpecStream ==
    /\ InitStream /\ [][NextStream]_vars
    /\ WF_vars(ScanExhausted \/ ScanApplyFails \/ ScanApply \/ ScanNext
                  \/ Wake \/ PidDone \/ PidByte)
    /\ []<>~(pc = "scan_trial" /\ retry < 2)

(***************************************************************************)
(* C16: auto_scan always terminates, whatever the transport does, one that *)
(* keeps delivering bytes included: once called it eventually returns.     *)
(***************************************************************************)
C16_ScanTerminates == (op = "auto_scan") ~> (op = "none")


(***************************************************************************)
(* The library's pure functions, called outside any session.  SpecCodec    *)
(* starts with one call drawn from the sets below and applies it.          *)
(***************************************************************************)
\* lists of up to MaxWords words are enumerated in full
MaxWords == 2
\* addresses this far below AX and above TEMP are decoded
FlagMargin == 2
\* a response's byte count is one byte (frame[2]): at most 127 words
MaxRegisters == 127

WordSamples == {0, 1, 255, 256, 32768, 65535}
Addresses == {0, 1, slave_address, 255}
ShortLists == UNION {[1..n -> WordSamples] : n \in 0..MaxWords}
LongLists ==
    {[i \in 1..n |-> (i * 517 + 32000) % U16] : n \in {MaxRegisters - 1, MaxRegisters}}
WordLists == ShortLists \cup LongLists

\* address, 0x03, byte count, big-endian values, CRC low byte first
encode_response(addr, values) ==
    LET payload == [k \in 1..(2 * Len(values)) |->
                       to_be_bytes(values[(k + 1) \div 2])[((k - 1) % 2) + 1]]
        body == <<addr, 3, 2 * Len(values)>> \o payload
    IN  body \o to_le_bytes(checksum(body))

\* byte b with bit k inverted
flip_bit(b, k) == XorByte[b][2 ^ k]

\* frame with bit k of its byte at position p (from 1) inverted
flip_frame(frame, p, k) == [frame EXCEPT ![p] = flip_bit(@, k)]

\* every byte of the frame but the function code and the byte count
FlipPositions(n) == (1..(2 * n + 5)) \ {2, 3}

Call(fn, arg) == [fn |-> fn, arg |-> arg, done |-> FALSE, out |-> <<>>]

ParseCalls == {Call("parse_response", <<a, v>>) : a \in Addresses, v \in WordLists}

ValidateCalls ==
    {Call("validate", <<a, v, p, k>>) :
        a \in {slave_address, 255}, v \in ShortLists,
        p \in FlipPositions(MaxWords), k \in 0..7}
    \cup
    {Call("validate", <<slave_address, v, p, k>>) :
        v \in {w \in LongLists : Len(w) = MaxRegisters},
        p \in FlipPositions(MaxRegisters), k \in 0..7}

RequestArgs ==
    {<<a, x, y>> : a \in Addresses, x \in WordSamples, y \in WordSamples}
        \cup {<<1, 0, 10>>, <<1, 1, 3>>}
ReadCalls == {Call("generate_read_request", arg) : arg \in RequestArgs}
WriteCalls == {Call("generate_write_request", arg) : arg \in RequestArgs}

ExtractCalls ==
    {Call("extract_sensor_data", <<s, k>>) :
        s \in (AX - FlagMargin)..(TEMP + FlagMargin),
        k \in 0..(TEMP - AX + 1 + FlagMargin)}

\* payloads of up to MaxBytes bytes are enumerated in full
MaxBytes == 3

ByteSamples == {0, 128, 255}

\* body with its CRC-16 appended low byte first
with_crc(body) == body \o to_le_bytes(checksum(body))

\* frame with its last byte changed
damaged(frame) == [frame EXCEPT ![Len(frame)] = (@ + 1) % 256]

\* address, function code, declared length n, n payload bytes
Bodies ==
    {<<a, fc, n>> \o payload :
        a \in {slave_address, 255}, fc \in {FUNC_READ, FUNC_WRITE},
        n \in 0..MaxBytes, payload \in UNION {[1..m -> ByteSamples] : m \in 0..MaxBytes}}

\* the longest declared lengths: 254 and 255 payload bytes
LongBodies ==
    {<<slave_address, FUNC_READ, n>> \o [k \in 1..n |-> (k * 37 + 100) % 256] :
        n \in {2 * MaxRegisters, 2 * MaxRegisters + 1}}

\* byte sequences f with Len(f) >= 5 and Len(f) = f[2] + 5 (f[2]: third byte)
SizedFrames ==
    LET all == {with_crc(b) : b \in Bodies \cup LongBodies}
                 \cup {damaged(with_crc(b)) : b \in Bodies \cup LongBodies}
    IN  {f \in all : Len(f) = f[3] + 5}

FeedCalls == {Call("feed", <<f>>) : f \in SizedFrames}

CodecCalls ==
    ParseCalls \cup ValidateCalls \cup ReadCalls \cup WriteCalls \cup ExtractCalls
        \cup FeedCalls

session == <<data_buffer, read_register_index, registers, current_baud,
             port_baud, rx, op, pc, idx, retry, sensor_data, result,
             sensor_baud, reopen_ok, pending, ops, sends, noise, faults,
             last_pb, frame_bank, fed, last_request, tx, applied,
             delivered, on_time, call>>

InitCodec ==
    /\ InitSession /\ sensor_baud = 0 /\ reopen_ok
    /\ codec \in {c \in CodecCalls : c.fn # "validate" \/ c.arg[3] <= Len(c.arg[2]) * 2 + 5}

Returned(out) == [codec EXCEPT !.done = TRUE, !.out = out]

\* parse_response(frame) on the response that carries the words
ApplyParseResponse ==
    /\ codec.fn = "parse_response" /\ ~codec.done
    /\ codec' = Returned(parse_response(encode_response(codec.arg[1], codec.arg[2])))
    /\ UNCHANGED session

\* the validation of both parsers, on the response as sent and with one bit
\* inverted
ApplyValidate ==
    /\ codec.fn = "validate" /\ ~codec.done
    /\ LET sent == encode_response(codec.arg[1], codec.arg[2])
           hit == flip_frame(sent, codec.arg[3], codec.arg[4])
       IN  codec' = Returned([sent_free |-> parse_response(sent),
                              sent_method |-> parse_response_buf(sent, 0),
                              hit_free |-> parse_response(hit),
                              hit_method |-> parse_response_buf(hit, 0)])
    /\ UNCHANGED session

ApplyGenerateRead ==
    /\ codec.fn = "generate_read_request" /\ ~codec.done
    /\ codec' = Returned(read_request_frame(codec.arg[1], codec.arg[2], codec.arg[3]))
    /\ UNCHANGED session

ApplyGenerateWrite ==
    /\ codec.fn = "generate_write_request" /\ ~codec.done
    /\ codec' = Returned(write_request_frame(codec.arg[1], codec.arg[2], codec.arg[3]))
    /\ UNCHANGED session

\* extract_sensor_data(start, values) with values 1, 2, ..
ApplyExtract ==
    /\ codec.fn = "extract_sensor_data" /\ ~codec.done
    /\ codec' = Returned(extract_sensor_data(codec.arg[1],
                                             [i \in 1..codec.arg[2] |-> i]))
    /\ UNCHANGED session

\* a reassembler: its buffer, what the last process_byte returned, whether
\* an earlier call returned anything but None, the most bytes the buffer
\* held after a call
NewFeed == [buf |-> <<>>, ret |-> PbNone, early |-> FALSE, peak |-> 0]

feed_byte(st, index, byte) ==
    LET r == process_byte(st.buf, index, byte)
    IN  [buf |-> r.buf, ret |-> r.ret,
         early |-> st.early \/ st.ret.kind # "None",
         peak |-> IF Len(r.buf) > st.peak THEN Len(r.buf) ELSE st.peak]

\* process_byte called for f[i], .., f[j] in turn
RECURSIVE feed_bytes(_, _, _, _, _)
feed_bytes(st, index, f, i, j) ==
    IF Len(st.buf) < 0 \/ i > j THEN st
    ELSE IF i = j THEN feed_byte(st, index, f[i])
    ELSE LET m == (i + j) \div 2
         IN  feed_bytes(feed_bytes(st, index, f, i, m), index, f, m + 1, j)

\* the frame fed byte by byte to a new reassembler, and parsed in one call
ApplyFeed ==
    /\ codec.fn = "feed" /\ ~codec.done
    /\ LET f == codec.arg[1]
       IN  codec' = Returned([stream |-> feed_bytes(NewFeed, 0, f, 1, Len(f)),
                              oneshot |-> parse_response(f)])
    /\ UNCHANGED session

NextCodec ==
    \/ ApplyParseResponse \/ ApplyValidate
    \/ ApplyGenerateRead \/ ApplyGenerateWrite \/ ApplyExtract
    \/ ApplyFeed

SpecCodec == InitCodec /\ [][NextCodec]_vars

Applied(fn) == codec.fn = fn /\ codec.done

(***************************************************************************)
(* C17.  For every slave address and every list of up to 127 16-bit words, *)
(* the free function parse_response, applied to the well-formed response   *)
(* that encodes them, returns Ok with exactly those words in order.        *)
(***************************************************************************)
C17_ResponseRoundTrip ==
    Applied("parse_response") => codec.out = PrOk(codec.arg[2])

\* the longest response, from a foreign address, with words above 32767
C17_Witness ==
    /\ Applied("parse_response")
    /\ codec.arg[1] # slave_address
    /\ Len(codec.arg[2]) = MaxRegisters
    /\ codec.out.kind = "Ok" /\ Len(codec.out.values) = MaxRegisters
    /\ \E i \in 1..MaxRegisters : codec.out.values[i] >= 32768

(***************************************************************************)
(* C18.  A response with its CRC-16 appended low byte first passes the     *)
(* validation of both parsers; with any single bit inverted in any byte    *)
(* but the function code and the byte count, both fail with CrcMismatch.   *)
(***************************************************************************)
C18_CrcRoundTrip ==
    Applied("validate") =>
        /\ codec.out.sent_free = PrOk(codec.arg[2])
        /\ codec.out.sent_method.kind = "Some"
        /\ codec.out.hit_free = PrErr(CrcMismatch)
        /\ codec.out.hit_method = PbErr(CrcMismatch)

\* the top bit of the CRC's high byte inverted in a two-word response
C18_Witness ==
    /\ Applied("validate")
    /\ Len(codec.arg[2]) = 2
    /\ codec.arg[3] = 2 * Len(codec.arg[2]) + 5 /\ codec.arg[4] = 7
    /\ codec.out.sent_free.kind = "Ok"
    /\ codec.out.hit_free = PrErr(CrcMismatch)

(***************************************************************************)
(* C19.  generate_read_request and generate_write_request build 8 bytes:   *)
(* address, 0x03 or 0x06, the two arguments high byte first, and the       *)
(* CRC-16 of those six bytes low byte first; 01 03 00 00 00 0A C5 CD and   *)
(* 01 06 00 01 00 03 98 0B are the frames of the reference examples.       *)
(***************************************************************************)
ExpectedRequest(code, arg) ==
    LET six == <<arg[1], code, arg[2] \div 256, arg[2] % 256,
                 arg[3] \div 256, arg[3] % 256>>
        crc == checksum(six)
    IN  six \o <<crc % 256, crc \div 256>>

C19_RequestFormats ==
    /\ Applied("generate_read_request") =>
          /\ Len(codec.out) = 8
          /\ codec.out = ExpectedRequest(3, codec.arg)
          /\ codec.arg = <<1, 0, 10>> => codec.out = <<1, 3, 0, 0, 0, 10, 197, 205>>
    /\ Applied("generate_write_request") =>
          /\ Len(codec.out) = 8
          /\ codec.out = ExpectedRequest(6, codec.arg)
          /\ codec.arg = <<1, 1, 3>> => codec.out = <<1, 6, 0, 1, 0, 3, 152, 11>>

C19_Witness ==
    /\ Applied("generate_read_request")
    /\ codec.arg = <<255, 256, 65535>>
    /\ SubSeq(codec.out, 1, 6) = <<255, 3, 1, 0, 255, 255>>

(***************************************************************************)
(* C20.  Decoding start register s and k values raises a group's flag      *)
(* exactly when s..s+k-1 contains the group's last address (AZ, GZ, HZ,    *)
(* YAW) and READ exactly when it contains an address outside AX..TEMP; the *)
(* three gyroscope addresses alone raise only GYRO.                        *)
(***************************************************************************)
C20_UpdateFlags ==
    Applied("extract_sensor_data") =>
        LET range == codec.arg[1]..(codec.arg[1] + codec.arg[2] - 1)
            flags == codec.out.update_flags
        IN  /\ "ACC" \in flags <=> AZ \in range
            /\ "GYRO" \in flags <=> GZ \in range
            /\ "MAG" \in flags <=> HZ \in range
            /\ "ANGLE" \in flags <=> YAW \in range
            /\ "READ" \in flags <=> \E a \in range : a < AX \/ a > TEMP
            /\ flags \subseteq {"ACC", "GYRO", "MAG", "ANGLE", "READ"}
            /\ codec.arg = <<GX, 3>> => flags = {"GYRO"}

C20_Witness ==
    /\ Applied("extract_sensor_data")
    /\ codec.arg = <<GX, 3>>
    /\ codec.out.update_flags = {"GYRO"}
    /\ codec.out.gyroscope = <<2000, 4000, 6000>>


(***************************************************************************)
(* C21.  A byte sequence f with Len(f) >= 5 and Len(f) = f[2] + 5, fed     *)
(* byte by byte to process_byte from an empty buffer, returns None until   *)
(* its last byte and then what parse_response(f) returns: both succeed or  *)
(* both fail with the same error, and on success the signed words of the   *)
(* one are the unsigned words of the other modulo 2^16.                    *)
(***************************************************************************)
C21_FeedAgreesWithOneShot ==
    Applied("feed") =>
        LET s == codec.out.stream
            o == codec.out.oneshot
        IN  /\ ~s.early
            /\ s.ret.kind # "None"
            /\ s.ret.kind = "Some" <=> o.kind = "Ok"
            /\ s.ret.kind = "Err" <=> o.kind = "Err"
            /\ s.ret.err = o.err
            /\ s.ret.kind = "Some" =>
                  /\ Len(s.ret.values) = Len(o.values)
                  /\ \A i \in 1..Len(o.values) :
                        i16_as_u16(s.ret.values[i]) = o.values[i]

\* the longest frame (255 payload bytes), with words the two parsers label
\* differently
C21_Witness ==
    /\ Applied("feed")
    /\ Len(codec.arg[1]) = 2 * MaxRegisters + 6
    /\ codec.out.oneshot.kind = "Ok"
    /\ codec.out.stream.ret.kind = "Some"
    /\ \E i \in 1..MaxRegisters :
          /\ codec.out.stream.ret.values[i] < 0
          /\ codec.out.oneshot.values[i] = codec.out.stream.ret.values[i] + U16


(***************************************************************************)
(* C22.  When auto_scan has moved to a further candidate speed and is      *)
(* about to send its first trial request there, the reassembly buffer is   *)
(* empty: no byte received at an earlier speed is left in it.              *)
(***************************************************************************)
C22_CandidateStartsWithEmptyBuffer ==
    op = "auto_scan" /\ pc = "scan_trial" /\ retry = 0 /\ Len(applied) > 1 =>
        data_buffer = <<>>


(***************************************************************************)
(* C23.  The Sample kept at a decode is determined by the decoded (start   *)
(* register, values) alone: a typed field holds the scaled value of its    *)
(* address when the frame covers it and zero otherwise, whatever the       *)
(* Register Bank holds, and the flags are those of the frame's addresses.  *)
(***************************************************************************)
SampleOf(ret) ==
    LET covered(a) == a >= ret.start /\ a < ret.start + Len(ret.values)
        at(a, scale) == IF covered(a) THEN ret.values[a - ret.start + 1] * scale
                        ELSE 0
        triple(base, scale) == [k \in 1..3 |-> at(base + k - 1, scale)]
    IN  [accelerometer |-> triple(AX, 16),
         gyroscope |-> triple(GX, 2000),
         angles |-> triple(ROLL, 180),
         magnetometer |-> triple(HX, 1),
         temperature |-> at(TEMP, 1),
         update_flags |->
             {g \in {"ACC", "GYRO", "MAG", "ANGLE", "READ"} :
                 \/ g = "ACC" /\ covered(AZ)
                 \/ g = "GYRO" /\ covered(GZ)
                 \/ g = "MAG" /\ covered(HZ)
                 \/ g = "ANGLE" /\ covered(YAW)
                 \/ g = "READ" /\ \E a \in DecodedAddresses(ret) :
                                      a < AX \/ a > TEMP}]

C23_SampleIsFunctionOfFrame ==
    [][DecodedNow => sensor_data' = <<SampleOf(last_pb'[1].ret)>>]_vars

\* a one-word frame decoded at HX while the bank holds a value for HX + 1
C23_Witness ==
    /\ last_pb # <<>> /\ last_pb[1].ret.kind = "Some"
    /\ last_pb[1].ret.start = HX /\ Len(last_pb[1].ret.values) = 1
    /\ sensor_data # <<>>
    /\ sensor_data[1].magnetometer[1] # 0
    /\ sensor_data[1].magnetometer[2] = 0
    /\ HX + 1 \in DOMAIN registers /\ registers[HX + 1] # 0


(***************************************************************************)
(* The reassembler on long input.  SpecReassembly first feeds a byte       *)
(* stream to process_byte alone (no caller clears the buffer), then runs   *)
(* process_incoming_data, whose loop applies the valve after every byte,   *)
(* on jabber and on responses of every declared length around the limit.   *)
(***************************************************************************)
\* a well-formed response that declares n payload bytes
long_response(n) ==
    with_crc(<<slave_address, FUNC_READ, n>> \o [k \in 1..n |-> (k * 37 + 100) % 256])

DeclaredLengths == {6, 252, 253, 254, 255}

StreamScripts == JabberScripts \cup {long_response(n) : n \in DeclaredLengths}

\* byte streams longer than two of the longest frames
StreamCalls ==
    {Call("stream", <<jabber(2 * (RESET_THRESHOLD + 4) + 1)>>),
     Call("stream", <<long_response(255) \o long_response(255) \o <<255>> >>)}

InitReassembly ==
    /\ InitSession /\ sensor_baud = 0 /\ reopen_ok
    /\ codec \in StreamCalls

\* process_byte called for every byte of the stream in turn
ApplyStream ==
    /\ codec.fn = "stream" /\ ~codec.done
    /\ LET f == codec.arg[1]
       IN  codec' = Returned(feed_bytes(NewFeed, 0, f, 1, Len(f)))
    /\ UNCHANGED session

\* the session is used when the bare reassembler has been exercised
PollAfterStream == codec.done /\ ProcessIncomingData

DeliverStream ==
    /\ pc = "sleep"
    /\ MayFail
    /\ noise' = noise + 1
    /\ \E s \in StreamScripts : rx' = rx \o s
    /\ delivered' = TRUE
    /\ on_time' = (on_time /\ port_baud # sensor_baud)
    /\ UNCHANGED <<data_buffer, request, bank, port, op, pc, scan,
                   sensor_data, result, bus, ops, sends, faults, call>>

NextReassembly ==
    \/ ApplyStream \/ PollAfterStream \/ Wake \/ PidDone \/ PidByte
    \/ DeliverStream

SpecReassembly == InitReassembly /\ [][NextReassembly]_vars

(***************************************************************************)
(* C24.  Fed by process_byte alone, the reassembly buffer never holds more *)
(* than 259 bytes after a call; in the session, where the receive loop     *)
(* applies the valve after every byte, it never holds more than 256        *)
(* between bytes.                                                          *)
(***************************************************************************)
C24_BufferIsBounded ==
    /\ Applied("stream") => codec.out.peak <= 259 /\ Len(codec.out.buf) <= 259
    /\ Len(data_buffer) <= RESET_THRESHOLD

\* both limits are reached
C24_Witness ==
    /\ Applied("stream") /\ codec.out.peak = 259
    /\ Len(data_buffer) = RESET_THRESHOLD


(***************************************************************************)
(* C25.  A well-formed response whose first byte reaches an empty          *)
(* reassembly buffer in the receive loop is decoded, at its last byte,     *)
(* exactly when it declares at most 252 payload bytes.  One that declares  *)
(* 253..255 is never decoded: the valve empties the buffer at its 257th    *)
(* byte and the bytes after that are left at the head of the buffer.       *)
(***************************************************************************)
LongResponseOf == [n \in DeclaredLengths |-> long_response(n)]

\* the bytes fed since the buffer was last empty after a decode (or since
\* the session began) are the first bytes of the response declaring n
FeedingResponse(n) ==
    /\ last_pb # <<>>
    /\ Len(fed) >= 3 /\ Len(fed) <= n + 5
    /\ fed = SubSeq(LongResponseOf[n], 1, Len(fed))

C25_DecodedUpTo252 ==
    \A n \in DeclaredLengths :
        FeedingResponse(n) =>
            /\ last_pb[1].ret.kind # "Err"
            /\ last_pb[1].ret.kind = "Some" <=>
                  Len(fed) = n + 5 /\ n <= 252
            /\ data_buffer =
                  IF last_pb[1].ret.kind = "Some" THEN <<>>
                  ELSE IF Len(fed) <= RESET_THRESHOLD THEN fed
                  ELSE SubSeq(fed, RESET_THRESHOLD + 2, Len(fed))

\* the response declaring 255 bytes has been read to its end
C25_Witness ==
    /\ FeedingResponse(255) /\ Len(fed) = 260 /\ rx = <<>>
    /\ last_pb[1].ret.kind = "None"
    /\ data_buffer = SubSeq(LongResponseOf[255], 258, 260)
    /\ DOMAIN registers = {}


(***************************************************************************)
(* C26.  process_incoming_data starts with no Sample; each decoded frame   *)
(* updates the bank and replaces the Sample, a byte that completes nothing *)
(* changes neither; it returns Ok only when the transport has no byte      *)
(* left, with the Sample it then holds; a frame that fails validation      *)
(* makes it return that error at once, the bytes behind it unread, the     *)
(* bank as it was and no Sample.                                           *)
(***************************************************************************)
C26_ReceiveLoopContract ==
    [][/\ pc = "sleep" /\ pc' = "pid" => sensor_data' = <<>>
       /\ pc = "pid" /\ op = "process_incoming_data" =>
            /\ op' = "none" /\ result'.kind = "Ok" =>
                  /\ rx = <<>>
                  /\ result' = Ok(op, 0, sensor_data)
                  /\ registers' = registers
            /\ FedNow =>
                  LET ret == last_pb'[1].ret IN
                  /\ rx' = Tail(rx)
                  /\ ret.kind = "Some" =>
                        /\ op' = op
                        /\ sensor_data' = <<SampleOf(ret)>>
                        /\ \A k \in 1..Len(ret.values) :
                              registers'[ret.start + k - 1] = ret.values[k]
                  /\ ret.kind = "None" =>
                        /\ op' = op
                        /\ sensor_data' = sensor_data
                        /\ registers' = registers
                  /\ ret.kind = "Err" =>
                        /\ op' = "none"
                        /\ result' = Err(op, ret.err)
                        /\ registers' = registers]_vars

\* an error returned after a frame was decoded in the same call, with bytes
\* still unread
C26_Witness ==
    /\ result.op = "process_incoming_data" /\ result.kind = "Err"
    /\ result.err # Io
    /\ rx # <<>>
    /\ DOMAIN registers # {}
    /\ sensor_data # <<>>
    /\ result.data = <<>>


(***************************************************************************)
(* A bus whose sensor has another address than the session's.  It answers  *)
(* the requests it hears at its speed, whatever address they carry (as a   *)
(* device does that shares the line, or one configured differently).       *)
(***************************************************************************)
ForeignAddresses == {slave_address + 1, 255}

ForeignRespond ==
    /\ pc = "sleep"
    /\ pending # <<>> /\ port_baud = sensor_baud
    /\ \E a \in ForeignAddresses :
          rx' = rx \o response_frame(a, Head(pending).start, Head(pending).count)
    /\ pending' = Tail(pending)
    /\ delivered' = TRUE
    /\ UNCHANGED <<data_buffer, read_register_index, last_request, tx,
                   bank, port, op, pc, scan, sensor_data, result, bus, noise,
                   on_time, ops, sends, faults, call>>

NextForeign == AutoScan \/ ScanStep \/ ForeignRespond

SpecForeign == Init /\ [][NextForeign]_vars

(***************************************************************************)
(* C27.  The address byte of a response is not compared with the session's *)
(* slave address: a well-formed response from any slave is decoded to      *)
(* (read_register_index, its payload words), the words are in the Register *)
(* Bank, and discovery at the speed of such a slave succeeds.              *)
(***************************************************************************)
C27_AnySlaveAccepted ==
    /\ last_pb # <<>> /\ WellFormedResponse(LastFrame) =>
          /\ LastFrame[1] \in ForeignAddresses
          /\ last_pb[1].ret = PbSome(last_pb[1].index, PayloadWords(LastFrame))
          /\ \A k \in 1..Len(PayloadWords(LastFrame)) :
                registers[last_pb[1].index + k - 1] = PayloadWords(LastFrame)[k]
    /\ result.op = "auto_scan" /\ AnswersAtOneSpeed =>
          result = Ok("auto_scan", sensor_baud, <<>>)

\* discovery succeeded on the answer of slave 0x51 to a request for 0x50
C27_Witness ==
    /\ result = Ok("auto_scan", sensor_baud, <<>>)
    /\ tx # <<>> /\ tx[1] = slave_address
    /\ last_pb # <<>> /\ LastFrame[1] = slave_address + 1
    /\ last_pb[1].ret.kind = "Some"
    /\ AX \in DOMAIN registers /\ registers[AX] = sensor_value(AX)

====
